---- MODULE Spec2Model ----
(***************************************************************************)
(* Coin-flip battle: the on-chain game module (FlipGame + GameEscrow) in   *)
(* its two designs.                                                        *)
(*   "backend" : coinflip_battle_move.move  (winner takes all, the winner  *)
(*               is recorded by set_winner)                                *)
(*   "random"  : the module kept in vite-env.d.ts (on-chain randomness,    *)
(*               winners split the pot, set_blob_id records the pointer)   *)
(* A transaction either commits all its effects or aborts with the code of *)
(* the first failed assert! and changes no object.                         *)
(*   Spec      : the committed transactions (an aborted one is a           *)
(*               stuttering step), one or several rooms                    *)
(*   SpecCalls : one room, and every call, committed or aborted, leaves    *)
(*               its receipt in `last`                                     *)
(***************************************************************************)
EXTENDS Integers, Sequences, FiniteSets, TLC

\* ---------------------------------------------------------------- errors
E_INVALID_MAX_PLAYERS == 1
E_WRONG_AMOUNT == 2
E_GAME_FULL == 3
E_ALREADY_JOINED == 4
E_GAME_STARTED == 5
E_GAME_NOT_STARTED == 6
E_NOT_CREATOR == 7
E_NOT_WINNER == 8
E_MIN_STAKE == 9
E_TOO_EARLY == 10
E_ALREADY_CLAIMED == 11
E_BLOB_ALREADY_SET == 12
E_BLOB_NOT_SET == 13
E_INVALID_SEAL_ID == 14
E_WINNER_NOT_SET == 15
E_RESULT_NOT_SET == 15
E_NO_WINNERS == 16
\* abort of sui::balance::split when the coin holds less than the amount
\* asked for (framework code, its number is not part of this repository)
E_COIN_NOT_ENOUGH == 1002
\* the transaction committed
OK == 0

\* ------------------------------------------------------------- constants
MIN_PLAYERS == 2
MAX_PLAYERS == 10
MIN_STAKE_AMOUNT == 1000000
LOCK_DURATION_MS == 5000
SIDE_HEADS == 0
SIDE_TAILS == 1
\* the clock reading of the first transaction (BASE_TIME of the tests)
BASE_TIME == 1000000

\* ---------------------------------------------------------------- bounds
\* rooms ever created in one behaviour
MaxGames == 2
\* times the clock advances (by one lock duration each)
MaxTicks == 2

VARIABLES variant, limit, games, escrows, events, nextId, now, last, relay
vars == <<variant, limit, games, escrows, events, nextId, now, last, relay>>

\* the wallet the relay signs with, and two other wallets
BackendWallet == "bk"
Addr == {"a1", "a2", BackendWallet}
\* Transaction inputs.  A behaviour with a single room draws every input
\* from the wide sets; one with several rooms draws the values that pass
\* validation from the narrow ones (the rejected values cost nothing).
MaxPlayersIn == IF limit = 1
                THEN {MIN_PLAYERS - 1, MIN_PLAYERS, MIN_PLAYERS + 1, MAX_PLAYERS, MAX_PLAYERS + 1}
                ELSE {MIN_PLAYERS - 1, MIN_PLAYERS, MIN_PLAYERS + 1, MAX_PLAYERS + 1}
SideIn == IF limit = 1 THEN {SIDE_HEADS, SIDE_TAILS, SIDE_TAILS + 1}
                       ELSE {SIDE_HEADS, SIDE_TAILS + 1}
PaymentIn == IF limit = 1
             THEN {MIN_STAKE_AMOUNT - 1, MIN_STAKE_AMOUNT, MIN_STAKE_AMOUNT + 1}
             ELSE {MIN_STAKE_AMOUNT - 1, MIN_STAKE_AMOUNT}
BlobIn == IF limit = 1 THEN {<<>>, <<1>>, <<2>>} ELSE {<<>>, <<1>>}
RandomIn == {0, 1}

\* ------------------------------------------------------- vector / option
contains(v, x) == \E i \in 1..Len(v) : v[i] = x
is_none(o) == o = <<>>
is_some(o) == o # <<>>
borrow(o) == o[1]
some(x) == <<x>>

\* ---------------------------------------------------------------- receipt
\* what a transaction leaves behind: the call, the abort code (OK when it
\* committed) and the coins it handed out with transfer::public_transfer,
\* in order
Receipt(op, sender, g, e, args, paid) ==
  [op |-> op, code |-> OK, sender |-> sender, game |-> g, escrow |-> e,
   args |-> args, paid |-> paid]
Aborted(op, code) ==
  [op |-> op, code |-> code, sender |-> "", game |-> 0, escrow |-> 0,
   args |-> <<>>, paid |-> <<>>]
Transfer(to, amount) == [to |-> to, amount |-> amount]

\* event::emit, filed under the game_id the event carries
emit(log, g, names) == [log EXCEPT ![g] = @ \o names]

Put(f, k, v) == [x \in DOMAIN f \cup {k} |-> IF x = k THEN v ELSE f[x]]
Drop(f, k) == [x \in DOMAIN f \ {k} |-> f[x]]

\* ------------------------------------------------------------ the relay
\* a call of processFullGame: the await it is at, the room, the winner it
\* unlock time it encrypts under, the winner it picked (backend design) and
\* the blob id Walrus returned
NoFlight == [stage |-> "none", game |-> 0, unlockMs |-> 0, winner |-> "", blob |-> <<>>]

\* The relay process when App has mounted and started the listener:
\*   feed            GameFull events in the order the node serves them
\*   running, lastCursor, processedGames     closure of startEventListener
\*   pc, batch, nextCursor                   position of pollEvents
\*   poll            the processFullGame that pollEvents awaits
\*   isProcessing    the module's lock;  processingRef  App's set
\*   manual          the manualProcessGame that App awaits
\*   failures        external calls (RPC, Seal, Walrus) that have thrown
\*   keypair         initBackendWallet has set backendKeypair
startEventListener ==
  [feed |-> <<>>, keypair |-> TRUE,
   running |-> TRUE, lastCursor |-> 0, processedGames |-> {},
   pc |-> "wait", batch |-> <<>>, nextCursor |-> 0,
   poll |-> NoFlight,
   isProcessing |-> FALSE, processingRef |-> {},
   manual |-> NoFlight,
   failures |-> 0]

Init ==
  /\ variant \in {"backend", "random"}
  /\ limit \in 1..MaxGames
  /\ games = <<>>
  /\ escrows = <<>>
  /\ events = <<>>
  /\ nextId = 1
  /\ now = BASE_TIME
  /\ last = Receipt("none", "", 0, 0, <<>>, <<>>)
  /\ relay = startEventListener

\* the shared Clock object advances
Tick ==
  /\ now + LOCK_DURATION_MS <= BASE_TIME + MaxTicks * LOCK_DURATION_MS
  /\ now' = now + LOCK_DURATION_MS
  /\ UNCHANGED <<variant, limit, games, escrows, events, nextId, last>>

\* ------------------------------------------------------------ create_room
\* create_room_abort without the check of the side
create_room_abort_any_side(max_players, side, payment) ==
  IF ~(max_players >= MIN_PLAYERS /\ max_players <= MAX_PLAYERS) THEN E_INVALID_MAX_PLAYERS
  ELSE IF ~(payment >= MIN_STAKE_AMOUNT) THEN E_MIN_STAKE
  ELSE OK

\* the code of the first assert! that fails, OK when none does
create_room_abort(max_players, side, payment) ==
  IF ~(max_players >= MIN_PLAYERS /\ max_players <= MAX_PLAYERS) THEN E_INVALID_MAX_PLAYERS
  ELSE IF ~(side = SIDE_HEADS \/ side = SIDE_TAILS) THEN E_WRONG_AMOUNT
  ELSE IF ~(payment >= MIN_STAKE_AMOUNT) THEN E_MIN_STAKE
  ELSE OK

\* FlipGame with the running total left at zero
FlipGame_zero_total(creator, max_players, side, stake_per_player) ==
  [creator |-> creator,
   max_players |-> max_players,
   players |-> <<creator>>,
   player_sides |-> <<side>>,
   stake_per_player |-> stake_per_player,
   total_stake |-> 0,
   unlock_ms |-> 0,
   blob_id |-> <<>>,
   winner |-> <<>>,
   game_started |-> FALSE,
   claimed |-> FALSE]

FlipGame(creator, max_players, side, stake_per_player) ==
  [creator |-> creator,
   max_players |-> max_players,
   players |-> <<creator>>,
   player_sides |-> <<side>>,
   stake_per_player |-> stake_per_player,
   total_stake |-> stake_per_player,
   unlock_ms |-> 0,
   blob_id |-> <<>>,
   winner |-> <<>>,
   game_started |-> FALSE,
   claimed |-> FALSE]

\* the struct of the randomness design
FlipGame_r(creator, max_players, side, stake_per_player) ==
  [creator |-> creator,
   max_players |-> max_players,
   players |-> <<creator>>,
   player_sides |-> <<side>>,
   stake_per_player |-> stake_per_player,
   total_stake |-> stake_per_player,
   unlock_ms |-> 0,
   blob_id |-> <<>>,
   coin_result |-> <<>>,
   winners |-> <<>>,
   game_started |-> FALSE,
   claimed |-> FALSE]

GameEscrow(game_id, funds) == [game_id |-> game_id, funds |-> funds]

create_room(sender, max_players, side, payment) ==
  /\ variant = "backend"
  /\ create_room_abort(max_players, side, payment) = OK
  /\ nextId <= limit
  /\ games' = Put(games, nextId, FlipGame(sender, max_players, side, payment))
  /\ escrows' = Put(escrows, nextId, GameEscrow(nextId, payment))
  /\ events' = Put(events, nextId, <<"GameCreated">>)
  /\ nextId' = nextId + 1
  /\ last' = Receipt("create_room", sender, nextId, nextId,
                     <<max_players, side, payment>>, <<>>)
  /\ UNCHANGED <<variant, limit, now>>

create_room_r(sender, max_players, side, payment) ==
  /\ variant = "random"
  /\ create_room_abort(max_players, side, payment) = OK
  /\ nextId <= limit
  /\ games' = Put(games, nextId, FlipGame_r(sender, max_players, side, payment))
  /\ escrows' = Put(escrows, nextId, GameEscrow(nextId, payment))
  /\ events' = Put(events, nextId, <<"GameCreated">>)
  /\ nextId' = nextId + 1
  /\ last' = Receipt("create_room", sender, nextId, nextId,
                     <<max_players, side, payment>>, <<>>)
  /\ UNCHANGED <<variant, limit, now>>

\* -------------------------------------------------------------- join_room
\* join_room_abort without the assert that ties the escrow to the game
join_room_abort_any_escrow(g, e, sender, side, payment) ==
  LET game == games[g]
      current_count == Len(game.players)
  IN
  IF ~(~game.game_started) THEN E_GAME_STARTED
  ELSE IF ~(current_count < game.max_players) THEN E_GAME_FULL
  ELSE IF ~(~contains(game.players, sender)) THEN E_ALREADY_JOINED
  ELSE IF ~(payment = game.stake_per_player) THEN E_WRONG_AMOUNT
  ELSE IF ~(side = SIDE_HEADS \/ side = SIDE_TAILS) THEN E_WRONG_AMOUNT
  ELSE OK

\* join_room_abort without the assert that the sender is not yet a player
join_room_abort_any_player(g, e, sender, side, payment) ==
  LET game == games[g]
      current_count == Len(game.players)
  IN
  IF ~(~game.game_started) THEN E_GAME_STARTED
  ELSE IF ~(current_count < game.max_players) THEN E_GAME_FULL
  ELSE IF ~(payment = game.stake_per_player) THEN E_WRONG_AMOUNT
  ELSE IF ~(g = escrows[e].game_id) THEN E_WRONG_AMOUNT
  ELSE IF ~(side = SIDE_HEADS \/ side = SIDE_TAILS) THEN E_WRONG_AMOUNT
  ELSE OK

\* join_room_abort with the payment compared before anything else
join_room_abort_payment_first(g, e, sender, side, payment) ==
  LET game == games[g]
      current_count == Len(game.players)
  IN
  IF ~(payment = game.stake_per_player) THEN E_WRONG_AMOUNT
  ELSE IF ~(~game.game_started) THEN E_GAME_STARTED
  ELSE IF ~(current_count < game.max_players) THEN E_GAME_FULL
  ELSE IF ~(~contains(game.players, sender)) THEN E_ALREADY_JOINED
  ELSE IF ~(g = escrows[e].game_id) THEN E_WRONG_AMOUNT
  ELSE IF ~(side = SIDE_HEADS \/ side = SIDE_TAILS) THEN E_WRONG_AMOUNT
  ELSE OK

\* join_room_abort without the assert on the value of the payment
join_room_abort_any_payment(g, e, sender, side, payment) ==
  LET game == games[g]
      current_count == Len(game.players)
  IN
  IF ~(~game.game_started) THEN E_GAME_STARTED
  ELSE IF ~(current_count < game.max_players) THEN E_GAME_FULL
  ELSE IF ~(~contains(game.players, sender)) THEN E_ALREADY_JOINED
  ELSE IF ~(g = escrows[e].game_id) THEN E_WRONG_AMOUNT
  ELSE IF ~(side = SIDE_HEADS \/ side = SIDE_TAILS) THEN E_WRONG_AMOUNT
  ELSE OK

\* join_room_abort without the assert on the side
join_room_abort_side_unchecked(g, e, sender, side, payment) ==
  LET game == games[g]
      current_count == Len(game.players)
  IN
  IF ~(~game.game_started) THEN E_GAME_STARTED
  ELSE IF ~(current_count < game.max_players) THEN E_GAME_FULL
  ELSE IF ~(~contains(game.players, sender)) THEN E_ALREADY_JOINED
  ELSE IF ~(payment = game.stake_per_player) THEN E_WRONG_AMOUNT
  ELSE IF ~(g = escrows[e].game_id) THEN E_WRONG_AMOUNT
  ELSE OK

\* join_room_abort with the capacity compared before game_started
join_room_abort_capacity_first(g, e, sender, side, payment) ==
  LET game == games[g]
      current_count == Len(game.players)
  IN
  IF ~(current_count < game.max_players) THEN E_GAME_FULL
  ELSE IF ~(~game.game_started) THEN E_GAME_STARTED
  ELSE IF ~(~contains(game.players, sender)) THEN E_ALREADY_JOINED
  ELSE IF ~(payment = game.stake_per_player) THEN E_WRONG_AMOUNT
  ELSE IF ~(g = escrows[e].game_id) THEN E_WRONG_AMOUNT
  ELSE IF ~(side = SIDE_HEADS \/ side = SIDE_TAILS) THEN E_WRONG_AMOUNT
  ELSE OK

join_room_abort(g, e, sender, side, payment) ==
  LET game == games[g]
      current_count == Len(game.players)
  IN
  IF ~(~game.game_started) THEN E_GAME_STARTED
  ELSE IF ~(current_count < game.max_players) THEN E_GAME_FULL
  ELSE IF ~(~contains(game.players, sender)) THEN E_ALREADY_JOINED
  ELSE IF ~(payment = game.stake_per_player) THEN E_WRONG_AMOUNT
  ELSE IF ~(g = escrows[e].game_id) THEN E_WRONG_AMOUNT
  ELSE IF ~(side = SIDE_HEADS \/ side = SIDE_TAILS) THEN E_WRONG_AMOUNT
  ELSE OK

\* players, sides, stake and escrow after the push_backs and the coin::join
joined(game, sender, side) ==
  [game EXCEPT !.players = Append(@, sender),
               !.player_sides = Append(@, side),
               !.total_stake = @ + game.stake_per_player]

\* join_room that starts the game one player early
join_room_off_by_one(g, e, sender, side, payment) ==
  /\ variant = "backend"
  /\ g \in DOMAIN games /\ e \in DOMAIN escrows
  /\ join_room_abort(g, e, sender, side, payment) = OK
  /\ LET game == joined(games[g], sender, side)
         new_count == Len(game.players)
     IN games' = [games EXCEPT ![g] =
                    IF new_count + 1 = game.max_players
                    THEN [game EXCEPT !.game_started = TRUE,
                                      !.unlock_ms = now + LOCK_DURATION_MS]
                    ELSE game]
  /\ escrows' = [escrows EXCEPT ![e].funds = @ + payment]
  /\ events' = emit(events, g,
                    IF Len(games[g].players) + 1 = games[g].max_players
                    THEN <<"PlayerJoined", "GameFull">> ELSE <<"PlayerJoined">>)
  /\ last' = Receipt("join_room", sender, g, e, <<side, payment>>, <<>>)
  /\ UNCHANGED <<variant, limit, nextId, now>>

\* join_room that sets unlock_ms to the clock reading, without the lock
join_room_unlock_at_fill(g, e, sender, side, payment) ==
  /\ variant = "backend"
  /\ g \in DOMAIN games /\ e \in DOMAIN escrows
  /\ join_room_abort(g, e, sender, side, payment) = OK
  /\ LET game == joined(games[g], sender, side)
         new_count == Len(game.players)
     IN games' = [games EXCEPT ![g] =
                    IF new_count = game.max_players
                    THEN [game EXCEPT !.game_started = TRUE,
                                      !.unlock_ms = now]
                    ELSE game]
  /\ escrows' = [escrows EXCEPT ![e].funds = @ + payment]
  /\ events' = emit(events, g,
                    IF Len(games[g].players) + 1 = games[g].max_players
                    THEN <<"PlayerJoined", "GameFull">> ELSE <<"PlayerJoined">>)
  /\ last' = Receipt("join_room", sender, g, e, <<side, payment>>, <<>>)
  /\ UNCHANGED <<variant, limit, nextId, now>>

join_room(g, e, sender, side, payment) ==
  /\ variant = "backend"
  /\ g \in DOMAIN games /\ e \in DOMAIN escrows
  /\ join_room_abort(g, e, sender, side, payment) = OK
  /\ LET game == joined(games[g], sender, side)
         new_count == Len(game.players)
     IN games' = [games EXCEPT ![g] =
                    IF new_count = game.max_players
                    THEN [game EXCEPT !.game_started = TRUE,
                                      !.unlock_ms = now + LOCK_DURATION_MS]
                    ELSE game]
  /\ escrows' = [escrows EXCEPT ![e].funds = @ + payment]
  /\ events' = emit(events, g,
                    IF Len(games[g].players) + 1 = games[g].max_players
                    THEN <<"PlayerJoined", "GameFull">> ELSE <<"PlayerJoined">>)
  /\ last' = Receipt("join_room", sender, g, e, <<side, payment>>, <<>>)
  /\ UNCHANGED <<variant, limit, nextId, now>>

\* a winners loop that keeps every player
find_winners_all(players, player_sides, coin_result) == players

\* the winners loop of the randomness design: the players, in order, whose
\* side is the coin result
RECURSIVE find_winners(_, _, _)
find_winners(players, player_sides, coin_result) ==
  IF players = <<>> THEN <<>>
  ELSE LET rest == find_winners(Tail(players), Tail(player_sides), coin_result)
       IN IF Head(player_sides) = coin_result THEN <<Head(players)>> \o rest ELSE rest

\* random_value % 2 == 0 -> heads
coin_of(random_value) == IF random_value % 2 = 0 THEN SIDE_HEADS ELSE SIDE_TAILS

\* join_room_r_abort without the assert that somebody won
join_room_r_abort_unchecked(g, e, sender, side, payment, random_value) ==
  join_room_abort(g, e, sender, side, payment)

join_room_r_abort(g, e, sender, side, payment, random_value) ==
  LET first == join_room_abort(g, e, sender, side, payment)
      game == joined(games[g], sender, side)
  IN
  IF first # OK THEN first
  ELSE IF /\ Len(game.players) = game.max_players
          /\ ~(Len(find_winners(game.players, game.player_sides,
                                coin_of(random_value))) > 0)
       THEN E_NO_WINNERS
  ELSE OK

join_room_r(g, e, sender, side, payment, random_value) ==
  /\ variant = "random"
  /\ g \in DOMAIN games /\ e \in DOMAIN escrows
  /\ join_room_r_abort(g, e, sender, side, payment, random_value) = OK
  /\ LET game == joined(games[g], sender, side)
         new_count == Len(game.players)
         coin_result == coin_of(random_value)
         winners == find_winners(game.players, game.player_sides, coin_result)
     IN games' = [games EXCEPT ![g] =
                    IF new_count = game.max_players
                    THEN [game EXCEPT !.game_started = TRUE,
                                      !.unlock_ms = now + LOCK_DURATION_MS,
                                      !.coin_result = some(coin_result),
                                      !.winners = some(winners)]
                    ELSE game]
  /\ escrows' = [escrows EXCEPT ![e].funds = @ + payment]
  /\ events' = emit(events, g,
                    IF Len(games[g].players) + 1 = games[g].max_players
                    THEN <<"PlayerJoined", "GameFull">> ELSE <<"PlayerJoined">>)
  /\ last' = Receipt("join_room", sender, g, e, <<side, payment>>, <<>>)
  /\ UNCHANGED <<variant, limit, nextId, now>>

\* ----------------------------------------------------------- set_winner
\* set_winner_abort without the assert that the winner is still unset
set_winner_abort_overwrite(g, winner, blob_id) ==
  LET game == games[g] IN
  IF ~game.game_started THEN E_GAME_NOT_STARTED
  ELSE IF ~contains(game.players, winner) THEN E_NOT_WINNER
  ELSE IF ~(Len(blob_id) > 0) THEN E_BLOB_NOT_SET
  ELSE OK

\* set_winner_abort without the assert that the winner is a player
set_winner_abort_any_winner(g, winner, blob_id) ==
  LET game == games[g] IN
  IF ~game.game_started THEN E_GAME_NOT_STARTED
  ELSE IF ~is_none(game.winner) THEN E_BLOB_ALREADY_SET
  ELSE IF ~(Len(blob_id) > 0) THEN E_BLOB_NOT_SET
  ELSE OK

\* set_winner_abort without the assert that the game has started
set_winner_abort_any_state(g, winner, blob_id) ==
  LET game == games[g] IN
  IF ~is_none(game.winner) THEN E_BLOB_ALREADY_SET
  ELSE IF ~contains(game.players, winner) THEN E_NOT_WINNER
  ELSE IF ~(Len(blob_id) > 0) THEN E_BLOB_NOT_SET
  ELSE OK

\* set_winner takes no TxContext: the sender is not an input of the code
set_winner_abort(g, winner, blob_id) ==
  LET game == games[g] IN
  IF ~game.game_started THEN E_GAME_NOT_STARTED
  ELSE IF ~is_none(game.winner) THEN E_BLOB_ALREADY_SET
  ELSE IF ~contains(game.players, winner) THEN E_NOT_WINNER
  ELSE IF ~(Len(blob_id) > 0) THEN E_BLOB_NOT_SET
  ELSE OK

set_winner(g, sender, winner, blob_id) ==
  /\ variant = "backend"
  /\ g \in DOMAIN games
  /\ set_winner_abort(g, winner, blob_id) = OK
  /\ games' = [games EXCEPT ![g].winner = some(winner), ![g].blob_id = some(blob_id)]
  /\ events' = emit(events, g, <<"WinnerSet">>)
  /\ last' = Receipt("set_winner", sender, g, 0, <<winner, blob_id>>, <<>>)
  /\ UNCHANGED <<variant, limit, escrows, nextId, now>>

set_blob_id_abort(g, blob_id) ==
  LET game == games[g] IN
  IF ~game.game_started THEN E_GAME_NOT_STARTED
  ELSE IF ~is_some(game.coin_result) THEN E_RESULT_NOT_SET
  ELSE IF ~is_none(game.blob_id) THEN E_BLOB_ALREADY_SET
  ELSE IF ~(Len(blob_id) > 0) THEN E_BLOB_NOT_SET
  ELSE OK

set_blob_id(g, sender, blob_id) ==
  /\ variant = "random"
  /\ g \in DOMAIN games
  /\ set_blob_id_abort(g, blob_id) = OK
  /\ games' = [games EXCEPT ![g].blob_id = some(blob_id)]
  /\ events' = emit(events, g, <<"ResultSet">>)
  /\ last' = Receipt("set_blob_id", sender, g, 0, <<blob_id>>, <<>>)
  /\ UNCHANGED <<variant, limit, escrows, nextId, now>>

\* ---------------------------------------------------------- claim_reward
\* claim_reward_abort with the clock compared before the winner is looked at
claim_reward_abort_clock_first(g, e, caller) ==
  LET game == games[g] IN
  IF ~game.game_started THEN E_GAME_NOT_STARTED
  ELSE IF ~(now >= game.unlock_ms) THEN E_TOO_EARLY
  ELSE IF ~is_some(game.winner) THEN E_WINNER_NOT_SET
  ELSE IF ~(~game.claimed) THEN E_ALREADY_CLAIMED
  ELSE IF ~(caller = borrow(game.winner)) THEN E_NOT_WINNER
  ELSE IF ~(g = escrows[e].game_id) THEN E_WRONG_AMOUNT
  ELSE OK

\* claim_reward_abort without the assert that the caller is the winner
claim_reward_abort_any_caller(g, e, caller) ==
  LET game == games[g] IN
  IF ~game.game_started THEN E_GAME_NOT_STARTED
  ELSE IF ~is_some(game.winner) THEN E_WINNER_NOT_SET
  ELSE IF ~(now >= game.unlock_ms) THEN E_TOO_EARLY
  ELSE IF ~(~game.claimed) THEN E_ALREADY_CLAIMED
  ELSE IF ~(g = escrows[e].game_id) THEN E_WRONG_AMOUNT
  ELSE OK

\* claim_reward_abort without the assert on the clock
claim_reward_abort_no_lock(g, e, caller) ==
  LET game == games[g] IN
  IF ~game.game_started THEN E_GAME_NOT_STARTED
  ELSE IF ~is_some(game.winner) THEN E_WINNER_NOT_SET
  ELSE IF ~(~game.claimed) THEN E_ALREADY_CLAIMED
  ELSE IF ~(caller = borrow(game.winner)) THEN E_NOT_WINNER
  ELSE IF ~(g = escrows[e].game_id) THEN E_WRONG_AMOUNT
  ELSE OK

claim_reward_abort(g, e, caller) ==
  LET game == games[g] IN
  IF ~game.game_started THEN E_GAME_NOT_STARTED
  ELSE IF ~is_some(game.winner) THEN E_WINNER_NOT_SET
  ELSE IF ~(now >= game.unlock_ms) THEN E_TOO_EARLY
  ELSE IF ~(~game.claimed) THEN E_ALREADY_CLAIMED
  ELSE IF ~(caller = borrow(game.winner)) THEN E_NOT_WINNER
  ELSE IF ~(g = escrows[e].game_id) THEN E_WRONG_AMOUNT
  ELSE OK

\* claim_reward that pays and deletes neither object
claim_reward_keeps_objects(g, e, caller) ==
  /\ variant = "backend"
  /\ g \in DOMAIN games /\ e \in DOMAIN escrows
  /\ claim_reward_abort(g, e, caller) = OK
  /\ events' = emit(events, g, <<"RewardClaimed">>)
  /\ last' = Receipt("claim_reward", caller, g, e, <<>>,
                     <<Transfer(borrow(games[g].winner), escrows[e].funds)>>)
  /\ UNCHANGED <<variant, limit, games, escrows, nextId, now>>

\* the winner takes the whole coin of the escrow; both objects are deleted
claim_reward(g, e, caller) ==
  /\ variant = "backend"
  /\ g \in DOMAIN games /\ e \in DOMAIN escrows
  /\ claim_reward_abort(g, e, caller) = OK
  /\ events' = emit(events, g, <<"RewardClaimed">>)
  /\ games' = Drop(games, g)
  /\ escrows' = Drop(escrows, e)
  /\ last' = Receipt("claim_reward", caller, g, e, <<>>,
                     <<Transfer(borrow(games[g].winner), escrows[e].funds)>>)
  /\ UNCHANGED <<variant, limit, nextId, now>>

\* a share that is the whole pot
reward_per_winner_whole(game) == game.total_stake

reward_per_winner(game) == game.total_stake \div Len(borrow(game.winners))

claim_reward_r_abort(g, e, caller) ==
  LET game == games[g] IN
  IF ~game.game_started THEN E_GAME_NOT_STARTED
  ELSE IF ~is_some(game.coin_result) THEN E_RESULT_NOT_SET
  ELSE IF ~(now >= game.unlock_ms) THEN E_TOO_EARLY
  ELSE IF ~(~game.claimed) THEN E_ALREADY_CLAIMED
  ELSE IF ~contains(borrow(game.winners), caller) THEN E_NOT_WINNER
  ELSE IF ~(g = escrows[e].game_id) THEN E_WRONG_AMOUNT
  ELSE IF escrows[e].funds < reward_per_winner(game) THEN E_COIN_NOT_ENOUGH
  ELSE OK

\* the caller takes one share, the creator what is left; both objects are
\* deleted
claim_reward_r(g, e, caller) ==
  /\ variant = "random"
  /\ g \in DOMAIN games /\ e \in DOMAIN escrows
  /\ claim_reward_r_abort(g, e, caller) = OK
  /\ LET game == games[g]
         reward == reward_per_winner(game)
         rest == escrows[e].funds - reward
     IN last' = Receipt("claim_reward", caller, g, e, <<>>,
                        <<Transfer(caller, reward)>> \o
                        (IF rest > 0 THEN <<Transfer(game.creator, rest)>> ELSE <<>>))
  /\ events' = emit(events, g, <<"RewardClaimed">>)
  /\ games' = Drop(games, g)
  /\ escrows' = Drop(escrows, e)
  /\ UNCHANGED <<variant, limit, nextId, now>>

\* ----------------------------------------------------------- cancel_room
\* cancel_room_abort without the assert that the sender is the creator
cancel_room_abort_any_sender(g, e, sender) ==
  LET game == games[g]
      num_players == Len(game.players)
  IN
  IF ~(~game.game_started) THEN E_GAME_STARTED
  ELSE IF escrows[e].funds < (num_players - 1) * game.stake_per_player
       THEN E_COIN_NOT_ENOUGH
  ELSE OK

\* cancel_room_abort without the assert that the game has not started
cancel_room_abort_any_state(g, e, sender) ==
  LET game == games[g]
      num_players == Len(game.players)
  IN
  IF ~(sender = game.creator) THEN E_NOT_CREATOR
  ELSE IF escrows[e].funds < (num_players - 1) * game.stake_per_player
       THEN E_COIN_NOT_ENOUGH
  ELSE OK

\* no assert ties the escrow to the game here
cancel_room_abort(g, e, sender) ==
  LET game == games[g]
      num_players == Len(game.players)
  IN
  IF ~(sender = game.creator) THEN E_NOT_CREATOR
  ELSE IF ~(~game.game_started) THEN E_GAME_STARTED
  ELSE IF escrows[e].funds < (num_players - 1) * game.stake_per_player
       THEN E_COIN_NOT_ENOUGH
  ELSE OK

\* a refund of the whole escrow to the creator alone
refunds_creator_only(players, stake_per_player, funds) ==
  <<Transfer(players[1], funds)>>

\* the refund loop: stake_per_player to every player but the last, and the
\* coin that remains to the last one
refunds(players, stake_per_player, funds) ==
  LET num_players == Len(players) IN
  [i \in 1..num_players |->
     IF i < num_players THEN Transfer(players[i], stake_per_player)
     ELSE Transfer(players[i], funds - (num_players - 1) * stake_per_player)]

cancel_room(g, e, sender) ==
  /\ variant = "backend"
  /\ g \in DOMAIN games /\ e \in DOMAIN escrows
  /\ cancel_room_abort(g, e, sender) = OK
  /\ events' = emit(events, g, <<"GameCancelled">>)
  /\ games' = Drop(games, g)
  /\ escrows' = Drop(escrows, e)
  /\ last' = Receipt("cancel_room", sender, g, e, <<>>,
                     refunds(games[g].players, games[g].stake_per_player,
                             escrows[e].funds))
  /\ UNCHANGED <<variant, limit, nextId, now>>

cancel_room_r_abort(g, e, sender) ==
  LET game == games[g]
      num_players == Len(game.players)
  IN
  IF ~(sender = game.creator) THEN E_NOT_CREATOR
  ELSE IF ~(~game.game_started) THEN E_GAME_STARTED
  ELSE IF ~(num_players = 1) THEN E_GAME_STARTED
  ELSE OK

cancel_room_r(g, e, sender) ==
  /\ variant = "random"
  /\ g \in DOMAIN games /\ e \in DOMAIN escrows
  /\ cancel_room_r_abort(g, e, sender) = OK
  /\ events' = emit(events, g, <<"GameCancelled">>)
  /\ games' = Drop(games, g)
  /\ escrows' = Drop(escrows, e)
  /\ last' = Receipt("cancel_room", sender, g, e, <<>>,
                     <<Transfer(sender, escrows[e].funds)>>)
  /\ UNCHANGED <<variant, limit, nextId, now>>

\* -------------------------------------------------------------------------
Next ==
  \/ Tick /\ UNCHANGED relay
  \/ \E s \in Addr, m \in MaxPlayersIn, d \in SideIn, p \in PaymentIn :
       create_room(s, m, d, p) /\ UNCHANGED relay
  \/ \E s \in Addr, m \in MaxPlayersIn, d \in SideIn, p \in PaymentIn :
       create_room_r(s, m, d, p) /\ UNCHANGED relay
  \/ \E g \in DOMAIN games, e \in DOMAIN escrows, s \in Addr, d \in SideIn,
        p \in PaymentIn :
       join_room(g, e, s, d, p) /\ UNCHANGED relay
  \/ \E g \in DOMAIN games, e \in DOMAIN escrows, s \in Addr, d \in SideIn,
        p \in PaymentIn, r \in RandomIn :
       join_room_r(g, e, s, d, p, r) /\ UNCHANGED relay
  \/ \E g \in DOMAIN games, s \in Addr, w \in Addr, b \in BlobIn :
       set_winner(g, s, w, b) /\ UNCHANGED relay
  \/ \E g \in DOMAIN games, s \in Addr, b \in BlobIn :
       set_blob_id(g, s, b) /\ UNCHANGED relay
  \/ \E g \in DOMAIN games, e \in DOMAIN escrows, s \in Addr :
       claim_reward(g, e, s) /\ UNCHANGED relay
  \/ \E g \in DOMAIN games, e \in DOMAIN escrows, s \in Addr :
       claim_reward_r(g, e, s) /\ UNCHANGED relay
  \/ \E g \in DOMAIN games, e \in DOMAIN escrows, s \in Addr :
       cancel_room(g, e, s) /\ UNCHANGED relay
  \/ \E g \in DOMAIN games, e \in DOMAIN escrows, s \in Addr :
       cancel_room_r(g, e, s) /\ UNCHANGED relay

Spec == Init /\ [][Next]_vars

\* ------------------------------------------------------- aborted calls
\* a call whose assert! fails: no object changes, the receipt holds the code
aborts(op, code) ==
  /\ code # OK
  /\ last' = Aborted(op, code)
  /\ UNCHANGED <<variant, limit, games, escrows, events, nextId, now>>

create_room_aborts(max_players, side, payment) ==
  aborts("create_room", create_room_abort(max_players, side, payment))

\* the receipt of a refused join_room also holds the side and the payment
\* that were offered
join_room_aborts(g, e, sender, side, payment) ==
  /\ variant = "backend"
  /\ join_room_abort(g, e, sender, side, payment) # OK
  /\ last' = [Aborted("join_room", join_room_abort(g, e, sender, side, payment))
                EXCEPT !.args = <<side, payment>>]
  /\ UNCHANGED <<variant, limit, games, escrows, events, nextId, now>>

join_room_r_aborts(g, e, sender, side, payment, random_value) ==
  /\ variant = "random"
  /\ join_room_r_abort(g, e, sender, side, payment, random_value) # OK
  /\ last' = [Aborted("join_room",
                      join_room_r_abort(g, e, sender, side, payment, random_value))
                EXCEPT !.args = <<side, payment>>]
  /\ UNCHANGED <<variant, limit, games, escrows, events, nextId, now>>

set_winner_aborts(g, winner, blob_id) ==
  variant = "backend" /\ aborts("set_winner", set_winner_abort(g, winner, blob_id))

set_blob_id_aborts(g, blob_id) ==
  variant = "random" /\ aborts("set_blob_id", set_blob_id_abort(g, blob_id))

claim_reward_aborts(g, e, caller) ==
  variant = "backend" /\ aborts("claim_reward", claim_reward_abort(g, e, caller))

claim_reward_r_aborts(g, e, caller) ==
  variant = "random" /\ aborts("claim_reward", claim_reward_r_abort(g, e, caller))

cancel_room_aborts(g, e, sender) ==
  variant = "backend" /\ aborts("cancel_room", cancel_room_abort(g, e, sender))

cancel_room_r_aborts(g, e, sender) ==
  variant = "random" /\ aborts("cancel_room", cancel_room_r_abort(g, e, sender))

InitCalls == Init /\ limit = 1

NextCalls ==
  \/ Next
  \/ \E m \in MaxPlayersIn, d \in SideIn, p \in PaymentIn : create_room_aborts(m, d, p) /\ UNCHANGED relay
  \/ \E g \in DOMAIN games, e \in DOMAIN escrows, s \in Addr, d \in SideIn,
        p \in PaymentIn :
       join_room_aborts(g, e, s, d, p) /\ UNCHANGED relay
  \/ \E g \in DOMAIN games, e \in DOMAIN escrows, s \in Addr, d \in SideIn,
        p \in PaymentIn, r \in RandomIn :
       join_room_r_aborts(g, e, s, d, p, r) /\ UNCHANGED relay
  \/ \E g \in DOMAIN games, w \in Addr, b \in BlobIn : set_winner_aborts(g, w, b) /\ UNCHANGED relay
  \/ \E g \in DOMAIN games, b \in BlobIn : set_blob_id_aborts(g, b) /\ UNCHANGED relay
  \/ \E g \in DOMAIN games, e \in DOMAIN escrows, s \in Addr : claim_reward_aborts(g, e, s) /\ UNCHANGED relay
  \/ \E g \in DOMAIN games, e \in DOMAIN escrows, s \in Addr : claim_reward_r_aborts(g, e, s) /\ UNCHANGED relay
  \/ \E g \in DOMAIN games, e \in DOMAIN escrows, s \in Addr : cancel_room_aborts(g, e, s) /\ UNCHANGED relay
  \/ \E g \in DOMAIN games, e \in DOMAIN escrows, s \in Addr : cancel_room_r_aborts(g, e, s) /\ UNCHANGED relay

SpecCalls == InitCalls /\ [][NextCalls]_vars
\* ------------------------------------------------------- seal_approve
\* sui::bcs::to_bytes of a u64: eight bytes, least significant first
RECURSIVE to_le(_, _)
to_le(n, k) == IF k = 0 THEN <<>> ELSE <<n % 256>> \o to_le(n \div 256, k - 1)
bcs_to_bytes(n) == to_le(n, 8)

\* bcs::peel_u64: the number that eight bytes, least significant first, spell
RECURSIVE peel_u64(_)
peel_u64(bytes) == IF bytes = <<>> THEN 0 ELSE Head(bytes) + 256 * peel_u64(Tail(bytes))

\* seal_approve_abort that accepts any identity long enough
seal_approve_abort_any_id(id, g) ==
  LET game == games[g]
      unlock_bytes == bcs_to_bytes(game.unlock_ms)
      id_len == Len(id)
      unlock_len == Len(unlock_bytes)
  IN
  IF ~(id_len >= unlock_len) THEN E_INVALID_SEAL_ID
  ELSE IF ~(now >= game.unlock_ms) THEN E_TOO_EARLY
  ELSE OK

\* backend design: the identity must end in the bytes of game.unlock_ms
seal_approve_abort(id, g) ==
  LET game == games[g]
      unlock_bytes == bcs_to_bytes(game.unlock_ms)
      id_len == Len(id)
      unlock_len == Len(unlock_bytes)
  IN
  IF ~(id_len >= unlock_len) THEN E_INVALID_SEAL_ID
  ELSE IF \E i \in 0..(unlock_len - 1) :
            id[id_len - unlock_len + i + 1] # unlock_bytes[i + 1]
       THEN E_INVALID_SEAL_ID
  ELSE IF ~(now >= game.unlock_ms) THEN E_TOO_EARLY
  ELSE OK

\* randomness design: the timestamp is read from the last 8 bytes of the
\* identity; no game is looked at
seal_approve_r_abort(id) ==
  LET id_len == Len(id) IN
  IF ~(id_len >= 8) THEN E_INVALID_SEAL_ID
  ELSE LET timestamp_bytes == SubSeq(id, id_len - 8 + 1, id_len)
           unlock_ms == peel_u64(timestamp_bytes)
       IN IF ~(now >= unlock_ms) THEN E_TOO_EARLY ELSE OK

\* the key server's call; it touches no object, whether it returns or aborts
seal_approve(id, g) ==
  /\ variant = "backend"
  /\ g \in DOMAIN games
  /\ last' = [Receipt("seal_approve", "", g, 0, <<id>>, <<>>)
                EXCEPT !.code = seal_approve_abort(id, g)]
  /\ UNCHANGED <<variant, limit, games, escrows, events, nextId, now>>

seal_approve_r(id) ==
  /\ variant = "random"
  /\ last' = [Receipt("seal_approve", "", 0, 0, <<id>>, <<>>)
                EXCEPT !.code = seal_approve_r_abort(id)]
  /\ UNCHANGED <<variant, limit, games, escrows, events, nextId, now>>

\* Identities the key server is asked about: a (shortened) package id
\* followed by the bytes of a timestamp, the bare bytes of a timestamp, and
\* the same cut short by one byte.
PackagePrefix == <<171, 205>>
SealTimeIn == {0, BASE_TIME, BASE_TIME + LOCK_DURATION_MS,
               BASE_TIME + 2 * LOCK_DURATION_MS}
SealIdIn ==
  {PackagePrefix \o bcs_to_bytes(t) : t \in SealTimeIn}
    \cup {bcs_to_bytes(t) : t \in SealTimeIn}
    \cup {Tail(bcs_to_bytes(t)) : t \in SealTimeIn}

\* one two-player room is created and filled while the clock runs, and the
\* key server asks at any moment
NextSeal ==
  \/ Tick /\ UNCHANGED relay
  \/ create_room(BackendWallet, MIN_PLAYERS, SIDE_HEADS, MIN_STAKE_AMOUNT) /\ UNCHANGED relay
  \/ create_room_r(BackendWallet, MIN_PLAYERS, SIDE_HEADS, MIN_STAKE_AMOUNT) /\ UNCHANGED relay
  \/ \E g \in DOMAIN games, e \in DOMAIN escrows :
       join_room(g, e, "a1", SIDE_TAILS, MIN_STAKE_AMOUNT) /\ UNCHANGED relay
  \/ \E g \in DOMAIN games, e \in DOMAIN escrows, r \in RandomIn :
       join_room_r(g, e, "a1", SIDE_TAILS, MIN_STAKE_AMOUNT, r) /\ UNCHANGED relay
  \/ \E id \in SealIdIn, g \in DOMAIN games : seal_approve(id, g) /\ UNCHANGED relay
  \/ \E id \in SealIdIn : seal_approve_r(id) /\ UNCHANGED relay

SpecSeal == InitCalls /\ [][NextSeal]_vars

\* =========================================================================
\* The relay (backendService: startEventListener, manualProcessGame,
\* processFullGame) and App's two ways of starting it
\* =========================================================================
\* events a queryEvents call returns at most
PAGE_LIMIT == 10
\* external calls that throw in one behaviour
MaxFailures == 1
\* blob ids uploadToWalrus returns
WalrusBlobIn == {<<1>>, <<2>>}

chain == <<variant, limit, games, escrows, events, nextId, now, last>>

\* the node serves a GameFull event once the transaction that emitted it
\* has committed
full_events(log, g) ==
  IF g \in DOMAIN log THEN Len(SelectSeq(log[g], LAMBDA n : n = "GameFull")) ELSE 0
indexed(g) ==
  relay' = [relay EXCEPT !.feed = IF full_events(events', g) > full_events(events, g)
                                  THEN Append(@, g) ELSE @]

\* client.queryEvents({GameFull, cursor, limit, order: 'ascending'})
queryEvents(cursor) ==
  LET rest == SubSeq(relay.feed, cursor + 1, Len(relay.feed))
      data == SubSeq(rest, 1, IF Len(rest) < PAGE_LIMIT THEN Len(rest) ELSE PAGE_LIMIT)
  IN [data |-> data,
      nextCursor |-> IF data = <<>> THEN 0 ELSE cursor + Len(data)]

\* already_set that never finds a result in the fields
already_set_unread(g) == FALSE

\* pollEvents' test of the fields it read: the else branch is taken
already_set(g) ==
  IF variant = "backend" THEN ~is_none(games[g].winner)
  ELSE ~(is_none(games[g].blob_id) /\ is_some(games[g].coin_result))

\* manualProcessGame's tests of the object it read: none returns or throws
manual_proceeds(g) ==
  /\ g \in DOMAIN games
  /\ IF variant = "backend"
     THEN is_none(games[g].winner) /\ games[g].game_started
     ELSE is_none(games[g].blob_id) /\ games[g].game_started
          /\ is_some(games[g].coin_result)

\* backend design: any of the players; randomness design: nothing to pick
pickRandomWinner(g) ==
  IF variant = "backend"
  THEN {games[g].players[i] : i \in 1..Len(games[g].players)}
  ELSE {""}

in_flight(who) == relay[who].stage \in {"encrypt", "upload", "submit"}

\* processFullGame returns to the caller that awaits it: pollEvents adds the
\* room to processedGames on a result, manualProcessGame's finally releases
\* the lock
returned(who, ok) ==
  IF who = "poll"
  THEN [relay EXCEPT !.poll = NoFlight,
                     !.processedGames = IF ok THEN @ \cup {relay.poll.game} ELSE @]
  ELSE [relay EXCEPT !.manual = NoFlight, !.isProcessing = FALSE]

encryptWithSeal(who) ==
  /\ relay[who].stage = "encrypt"
  /\ relay' = [relay EXCEPT ![who].stage = "upload"]
  /\ UNCHANGED chain

\* uploadToWalrus whose blob id is dropped
uploadToWalrus_dropped(who, blobId) ==
  /\ relay[who].stage = "upload"
  /\ relay' = [relay EXCEPT ![who].stage = "submit"]
  /\ UNCHANGED chain

uploadToWalrus(who, blobId) ==
  /\ relay[who].stage = "upload"
  /\ relay' = [relay EXCEPT ![who].stage = "submit", ![who].blob = blobId]
  /\ UNCHANGED chain

\* the transaction commits and processFullGame returns its result
signAndExecuteTransaction(who) ==
  /\ relay[who].stage = "submit"
  /\ \/ set_winner(relay[who].game, BackendWallet, relay[who].winner, relay[who].blob)
     \/ set_blob_id(relay[who].game, BackendWallet, relay[who].blob)
  /\ relay' = returned(who, TRUE)

\* the Move call would abort: the client throws, processFullGame returns null
transaction_refused(who) ==
  /\ relay[who].stage = "submit"
  /\ \/ relay[who].game \notin DOMAIN games
     \/ /\ relay[who].game \in DOMAIN games
        /\ IF variant = "backend"
           THEN set_winner_abort(relay[who].game, relay[who].winner, relay[who].blob) # OK
           ELSE set_blob_id_abort(relay[who].game, relay[who].blob) # OK
  /\ relay' = returned(who, FALSE)
  /\ UNCHANGED chain

\* an awaited external call (getObject, Seal, Walrus, the RPC node) throws:
\* processFullGame and manualProcessGame catch it and return null
throws(who) ==
  /\ relay[who].stage # "none"
  /\ relay.failures < MaxFailures
  /\ relay' = [returned(who, FALSE) EXCEPT !.failures = @ + 1]
  /\ UNCHANGED chain

\* ---- pollEvents
\* pollQuery of a loop that does not test running
pollQuery_unguarded ==
  /\ relay.pc = "wait"
  /\ LET page == queryEvents(relay.lastCursor) IN
       relay' = [relay EXCEPT !.pc = "events", !.batch = page.data,
                              !.nextCursor = page.nextCursor]
  /\ UNCHANGED chain

pollQuery ==
  /\ relay.pc = "wait" /\ relay.running
  /\ LET page == queryEvents(relay.lastCursor) IN
       relay' = [relay EXCEPT !.pc = "events", !.batch = page.data,
                              !.nextCursor = page.nextCursor]
  /\ UNCHANGED chain

\* while (running) is false after the sleep
pollExit ==
  /\ relay.pc = "wait" /\ ~relay.running
  /\ relay' = [relay EXCEPT !.pc = "done"]
  /\ UNCHANGED chain

\* one turn of the for loop, up to the call of processFullGame
pollEvent ==
  /\ relay.pc = "events" /\ relay.poll.stage = "none" /\ relay.batch # <<>>
  /\ LET gameId == Head(relay.batch)
         next == [relay EXCEPT !.batch = Tail(@)]
     IN IF gameId \in relay.processedGames THEN relay' = next
        ELSE IF gameId \notin DOMAIN games THEN relay' = next
        ELSE IF already_set(gameId)
             THEN relay' = [next EXCEPT !.processedGames = @ \cup {gameId}]
        ELSE IF ~relay.keypair THEN relay' = next
        ELSE \E w \in pickRandomWinner(gameId) :
               relay' = [next EXCEPT !.poll = [stage |-> "encrypt", game |-> gameId,
                                               unlockMs |-> games[gameId].unlock_ms,
                                               winner |-> w, blob |-> <<>>]]
  /\ UNCHANGED chain

\* getObject throws inside the for loop: the catch of pollEvents ends the
\* cycle before lastCursor is assigned
pollThrows ==
  /\ relay.pc = "events" /\ relay.poll.stage = "none" /\ relay.batch # <<>>
  /\ Head(relay.batch) \notin relay.processedGames
  /\ relay.failures < MaxFailures
  /\ relay' = [relay EXCEPT !.pc = "wait", !.batch = <<>>, !.failures = @ + 1]
  /\ UNCHANGED chain

\* the for loop is over: if (events.nextCursor) lastCursor = events.nextCursor
pollEnd ==
  /\ relay.pc = "events" /\ relay.poll.stage = "none" /\ relay.batch = <<>>
  /\ relay' = [relay EXCEPT !.pc = "wait",
                            !.lastCursor = IF relay.nextCursor # 0
                                           THEN relay.nextCursor ELSE @]
  /\ UNCHANGED chain

\* ---- App
\* the effect's cleanup
cleanup ==
  /\ relay.running
  /\ relay' = [relay EXCEPT !.running = FALSE]
  /\ UNCHANGED chain

\* the effect runs again once the old loop has ended: a new closure
restart ==
  /\ relay.pc = "done"
  /\ relay' = [relay EXCEPT !.running = TRUE, !.lastCursor = 0,
                            !.processedGames = {}, !.pc = "wait",
                            !.batch = <<>>, !.nextCursor = 0]
  /\ UNCHANGED chain

\* processFullGames finds a full room without a blob id that is not in
\* processingRef, adds it and calls manualProcessGame, which returns null
\* at once when there is no wallet or the lock is taken
processFullGames(g) ==
  /\ g \in DOMAIN games
  /\ games[g].game_started /\ is_none(games[g].blob_id)
  /\ Len(games[g].players) = games[g].max_players
  /\ g \notin relay.processingRef
  /\ relay' = IF ~relay.keypair \/ relay.isProcessing
              THEN [relay EXCEPT !.processingRef = @ \cup {g}]
              ELSE [relay EXCEPT !.processingRef = @ \cup {g},
                                 !.isProcessing = TRUE,
                                 !.manual = [NoFlight EXCEPT !.stage = "read", !.game = g]]
  /\ UNCHANGED chain

\* manualProcessGame after its getObject
manualRead ==
  /\ relay.manual.stage = "read"
  /\ IF manual_proceeds(relay.manual.game)
     THEN \E w \in pickRandomWinner(relay.manual.game) :
            relay' = [relay EXCEPT !.manual.stage = "encrypt", !.manual.winner = w,
                                   !.manual.unlockMs = games[relay.manual.game].unlock_ms]
     ELSE relay' = returned("manual", FALSE)
  /\ UNCHANGED chain

Caller == {"poll", "manual"}

\* two wallets open and fill rooms of two players while the relay runs
NextRelay ==
  \/ create_room("a1", MIN_PLAYERS, SIDE_HEADS, MIN_STAKE_AMOUNT) /\ UNCHANGED relay
  \/ create_room_r("a1", MIN_PLAYERS, SIDE_HEADS, MIN_STAKE_AMOUNT) /\ UNCHANGED relay
  \/ \E g \in DOMAIN games :
       join_room(g, g, "a2", SIDE_TAILS, MIN_STAKE_AMOUNT) /\ indexed(g)
  \/ \E g \in DOMAIN games, r \in RandomIn :
       join_room_r(g, g, "a2", SIDE_TAILS, MIN_STAKE_AMOUNT, r) /\ indexed(g)
  \/ pollQuery
  \/ pollExit
  \/ pollEvent
  \/ pollThrows
  \/ pollEnd
  \/ \E who \in Caller : encryptWithSeal(who)
  \/ \E who \in Caller, b \in WalrusBlobIn : uploadToWalrus(who, b)
  \/ \E who \in Caller : signAndExecuteTransaction(who)
  \/ \E who \in Caller : transaction_refused(who)
  \/ \E who \in Caller : throws(who)
  \/ cleanup
  \/ restart
  \/ \E g \in DOMAIN games : processFullGames(g)
  \/ manualRead

\* App has mounted: initBackendWallet has found a private key or not, the
\* listener runs, no room exists
InitRelay ==
  /\ variant \in {"backend", "random"}
  /\ limit \in 1..MaxGames
  /\ games = <<>>
  /\ escrows = <<>>
  /\ events = <<>>
  /\ nextId = 1
  /\ now = BASE_TIME
  /\ last = Receipt("none", "", 0, 0, <<>>, <<>>)
  /\ relay \in {[startEventListener EXCEPT !.keypair = k] : k \in BOOLEAN}

SpecRelay == InitRelay /\ [][NextRelay]_vars

\* the steps pollEvents takes by itself once the promise it awaits settles
pollSteps ==
  \/ pollQuery
  \/ pollExit
  \/ pollEvent
  \/ pollEnd
  \/ encryptWithSeal("poll")
  \/ \E b \in WalrusBlobIn : uploadToWalrus("poll", b)
  \/ signAndExecuteTransaction("poll")
  \/ transaction_refused("poll")

SpecRelayLive == InitRelay /\ [][NextRelay]_vars /\ WF_vars(pollSteps)

\* ------------------------------------------------------- view functions
is_claimed(g) == games[g].claimed

\* backend design
can_claim(g) ==
  /\ games[g].game_started
  /\ is_some(games[g].winner)
  /\ ~games[g].claimed
  /\ now >= games[g].unlock_ms

\* randomness design
is_winner(g, player) ==
  IF is_some(games[g].winners) THEN contains(borrow(games[g].winners), player)
  ELSE FALSE

can_claim_r(g, player) ==
  /\ games[g].game_started
  /\ is_some(games[g].coin_result)
  /\ ~games[g].claimed
  /\ now >= games[g].unlock_ms
  /\ is_winner(g, player)

\* =========================================================================
\* Properties
\* =========================================================================
\* the abort code of a settle call, in the design that is deployed
claim_abort(g, e, caller) ==
  IF variant = "backend" THEN claim_reward_abort(g, e, caller)
  ELSE claim_reward_r_abort(g, e, caller)
outcome_set(game) ==
  IF variant = "backend" THEN is_some(game.winner) ELSE is_some(game.coin_result)
winner_set(game) ==
  IF variant = "backend"
  THEN {game.winner[i] : i \in 1..Len(game.winner)}
  ELSE IF is_some(game.winners)
       THEN {borrow(game.winners)[i] : i \in 1..Len(borrow(game.winners))}
       ELSE {}
count(log, name) == Cardinality({i \in 1..Len(log) : log[i] = name})
\* this step is a committed transaction (each one emits an event)
committed == events' # events

\* C1: an escrow loses funds (here: is emptied and deleted) only in a
\* transaction whose game argument is the game the escrow is bound to.
C1_FundsLeaveOnlyForBoundRoom ==
  [][\A e \in DOMAIN escrows :
       (e \notin DOMAIN escrows' \/ escrows'[e].funds < escrows[e].funds)
         => escrows[e].game_id = last'.game]_vars

\* C2: in a started room with its outcome set and the clock at or past
\* unlock_ms, claim_reward by an address outside the winner set aborts with
\* E_NOT_WINNER, whatever escrow is passed (an abort changes no object and
\* transfers nothing).
C2_NonWinnerCannotSettle ==
  \A g \in DOMAIN games, e \in DOMAIN escrows, c \in Addr :
    (/\ games[g].game_started
     /\ outcome_set(games[g])
     /\ now >= games[g].unlock_ms
     /\ c \notin winner_set(games[g]))
      => claim_abort(g, e, c) = E_NOT_WINNER

\* a settle call was just refused with E_NOT_WINNER, after the unlock time
C2_Witness ==
  /\ last.op = "claim_reward" /\ last.code = E_NOT_WINNER /\ last.paid = <<>>
  /\ \E g \in DOMAIN games :
       /\ games[g].game_started /\ outcome_set(games[g])
       /\ now > games[g].unlock_ms
       /\ \E e \in DOMAIN escrows : escrows[e].game_id = g

\* C3 as stated: in every started room, before unlock_ms, claim_reward
\* aborts with E_TOO_EARLY for every caller.
C3_Original ==
  \A g \in DOMAIN games, e \in DOMAIN escrows, c \in Addr :
    (games[g].game_started /\ now < games[g].unlock_ms)
      => claim_abort(g, e, c) = E_TOO_EARLY

\* C3 amended: before unlock_ms no claim_reward commits; it aborts with
\* E_TOO_EARLY once the outcome is set, and with E_WINNER_NOT_SET while the
\* winner of a started room is not recorded.
C3_TooEarlyOnceOutcomeSet ==
  \A g \in DOMAIN games, e \in DOMAIN escrows, c \in Addr :
    /\ now < games[g].unlock_ms => claim_abort(g, e, c) # OK
    /\ (games[g].game_started /\ outcome_set(games[g]) /\ now < games[g].unlock_ms)
         => claim_abort(g, e, c) = E_TOO_EARLY
    /\ (games[g].game_started /\ ~outcome_set(games[g]))
         => claim_abort(g, e, c) = E_WINNER_NOT_SET

\* a settle call was just refused with E_TOO_EARLY in a started room
C3_Witness ==
  /\ last.op = "claim_reward" /\ last.code = E_TOO_EARLY
  /\ \E g \in DOMAIN games :
       games[g].game_started /\ outcome_set(games[g]) /\ now < games[g].unlock_ms

\* C4: winner takes all: a committed claim_reward finds max_players x
\* stake_per_player in the escrow, transfers exactly that, once, to the
\* recorded winner, and deletes the game and the escrow.
C4_WinnerTakesAll ==
  [][(variant = "backend" /\ committed /\ last'.op = "claim_reward") =>
       LET g == last'.game
           e == last'.escrow
           pot == games[g].max_players * games[g].stake_per_player
       IN /\ escrows[e].funds = pot
          /\ last'.paid = <<Transfer(borrow(games[g].winner), pot)>>
          /\ g \notin DOMAIN games'
          /\ e \notin DOMAIN escrows']_vars

\* the winner of a three-player room has just been paid the three stakes
C4_Witness ==
  /\ variant = "backend" /\ last.op = "claim_reward" /\ last.code = OK
  /\ last.paid = <<Transfer(last.sender, (MIN_PLAYERS + 1) * MIN_STAKE_AMOUNT)>>
  /\ last.game \notin DOMAIN games /\ last.escrow \notin DOMAIN escrows

C6_RecordedState ==
  \A g \in DOMAIN games :
    /\ (variant = "backend" /\ is_some(games[g].winner)) =>
         /\ \A w \in Addr, b \in BlobIn : set_winner_abort(g, w, b) = E_BLOB_ALREADY_SET
         /\ is_some(games[g].blob_id)
    /\ (variant = "random" /\ is_some(games[g].blob_id)) =>
         \A b \in BlobIn : set_blob_id_abort(g, b) = E_BLOB_ALREADY_SET
    /\ count(events[g], "WinnerSet") + count(events[g], "ResultSet") <= 1
C6_RecordedStep ==
  \A g \in DOMAIN games \cap DOMAIN games' :
    /\ is_some(games[g].blob_id) => games'[g].blob_id = games[g].blob_id
    /\ (variant = "backend" /\ is_some(games[g].winner)) =>
         games'[g].winner = games[g].winner
    /\ (variant = "random" /\ is_some(games[g].coin_result)) =>
         /\ games'[g].coin_result = games[g].coin_result
         /\ games'[g].winners = games[g].winners
C6_OutcomeRecordedOnce == []C6_RecordedState /\ [][C6_RecordedStep]_vars

\* a second recording call was just refused
C6_Witness ==
  /\ last.op \in {"set_winner", "set_blob_id"} /\ last.code = E_BLOB_ALREADY_SET
  /\ \E g \in DOMAIN games : is_some(games[g].blob_id)

\* C7 as stated: set_winner naming a non-member aborts with E_NOT_WINNER
\* (in every room state), and a recorded winner is a player.
C7_Original ==
  variant = "backend" =>
    \A g \in DOMAIN games :
      /\ \A w \in Addr, b \in BlobIn :
           ~contains(games[g].players, w) => set_winner_abort(g, w, b) = E_NOT_WINNER
      /\ is_some(games[g].winner) => contains(games[g].players, borrow(games[g].winner))

\* C7 amended: set_winner naming a non-member never commits; it aborts with
\* E_NOT_WINNER on a started room whose winner is unset, with
\* E_GAME_NOT_STARTED on a waiting room and with E_BLOB_ALREADY_SET once a
\* winner is recorded; a recorded winner is a player.
C7_WinnerIsAPlayer ==
  variant = "backend" =>
    \A g \in DOMAIN games :
      /\ \A w \in Addr, b \in BlobIn :
           ~contains(games[g].players, w) =>
             set_winner_abort(g, w, b) =
               IF ~games[g].game_started THEN E_GAME_NOT_STARTED
               ELSE IF is_some(games[g].winner) THEN E_BLOB_ALREADY_SET
               ELSE E_NOT_WINNER
      /\ is_some(games[g].winner) => contains(games[g].players, borrow(games[g].winner))

\* set_winner was just refused with E_NOT_WINNER on a started room that has
\* an outsider and no winner
C7_Witness ==
  /\ variant = "backend" /\ last.op = "set_winner" /\ last.code = E_NOT_WINNER
  /\ \E g \in DOMAIN games :
       /\ games[g].game_started /\ is_none(games[g].winner)
       /\ \E w \in Addr : ~contains(games[g].players, w)

\* C8: a committed set_winner was sent by the backend wallet.
C8_OnlyBackendRecordsWinner ==
  (last.op = "set_winner" /\ last.code = OK) => last.sender = BackendWallet

\* C9: create_room commits for every valid input, and the room it leaves is
\* waiting (not started, unlock_ms 0, no outcome, no blob id), has the
\* sender as creator and only player with the side given, stake_per_player
\* = total_stake = the payment, and an escrow bound to it holding the
\* payment.
C9_CreateRoom ==
  /\ \A m \in MaxPlayersIn, d \in SideIn, p \in PaymentIn :
       (/\ MIN_PLAYERS <= m /\ m <= MAX_PLAYERS
        /\ d \in {SIDE_HEADS, SIDE_TAILS}
        /\ p >= MIN_STAKE_AMOUNT) => create_room_abort(m, d, p) = OK
  /\ (last.op = "create_room" /\ last.code = OK) =>
       /\ last.game \in DOMAIN games /\ last.escrow \in DOMAIN escrows
       /\ LET game == games[last.game]
              escrow == escrows[last.escrow]
              max_players == last.args[1]
              side == last.args[2]
              payment == last.args[3]
          IN /\ ~game.game_started /\ game.unlock_ms = 0 /\ ~game.claimed
             /\ is_none(game.blob_id) /\ ~outcome_set(game) /\ winner_set(game) = {}
             /\ game.creator = last.sender
             /\ game.players = <<last.sender>>
             /\ game.player_sides = <<side>>
             /\ game.max_players = max_players
             /\ game.stake_per_player = payment
             /\ game.total_stake = payment
             /\ escrow.game_id = last.game
             /\ escrow.funds = payment

\* a ten-player room was just created at the minimum stake, side tails
C9_Witness ==
  /\ last.op = "create_room" /\ last.code = OK
  /\ last.args = <<MAX_PLAYERS, SIDE_TAILS, MIN_STAKE_AMOUNT>>
  /\ Len(games[last.game].players) = 1

\* what create_room requires of its inputs
valid_create(max_players, side, payment) ==
  /\ MIN_PLAYERS <= max_players /\ max_players <= MAX_PLAYERS
  /\ side \in {SIDE_HEADS, SIDE_TAILS}
  /\ payment >= MIN_STAKE_AMOUNT

\* C10 as stated: a refused create_room carries E_INVALID_MAX_PLAYERS or
\* E_MIN_STAKE.
C10_Original ==
  (last.op = "create_room" /\ last.code # OK) =>
    last.code \in {E_INVALID_MAX_PLAYERS, E_MIN_STAKE}

\* C10 amended: create_room with an invalid input aborts with the code of
\* the first check that fails, in the order capacity (E_INVALID_MAX_PLAYERS),
\* side (E_WRONG_AMOUNT), stake (E_MIN_STAKE); no room or escrow exists that
\* such inputs would have made.
C10_InvalidCreateAborts ==
  /\ \A m \in MaxPlayersIn, d \in SideIn, p \in PaymentIn :
       ~valid_create(m, d, p) =>
         create_room_abort(m, d, p) =
           IF ~(MIN_PLAYERS <= m /\ m <= MAX_PLAYERS) THEN E_INVALID_MAX_PLAYERS
           ELSE IF d \notin {SIDE_HEADS, SIDE_TAILS} THEN E_WRONG_AMOUNT
           ELSE E_MIN_STAKE
  /\ (last.op = "create_room" /\ last.code # OK) =>
       last.code \in {E_INVALID_MAX_PLAYERS, E_WRONG_AMOUNT, E_MIN_STAKE}
  /\ \A g \in DOMAIN games :
       valid_create(games[g].max_players, games[g].player_sides[1],
                    games[g].stake_per_player)

\* create_room was just refused for its side, and nothing exists
C10_Witness ==
  /\ last.op = "create_room" /\ last.code = E_WRONG_AMOUNT
  /\ games = <<>> /\ escrows = <<>> /\ nextId = 1

\* the abort code of a join call, in the design that is deployed
join_abort(g, e, sender, side, payment, random_value) ==
  IF variant = "backend" THEN join_room_abort(g, e, sender, side, payment)
  ELSE join_room_r_abort(g, e, sender, side, payment, random_value)

\* C11: no address occurs twice among the players of a room.
C11_NoDuplicateMember ==
  \A g \in DOMAIN games :
    \A i, j \in 1..Len(games[g].players) :
      games[g].players[i] = games[g].players[j] => i = j

\* every wallet is a player of one waiting room and a further join was
\* just refused with E_ALREADY_JOINED
C11_Witness ==
  /\ last.op = "join_room" /\ last.code = E_ALREADY_JOINED
  /\ \E g \in DOMAIN games :
       ~games[g].game_started /\ Len(games[g].players) = Cardinality(Addr)

\* C12 as stated: join_room by a player of the room aborts with
\* E_ALREADY_JOINED whether the room is waiting or started, for every side
\* and payment.
C12_Original ==
  \A g \in DOMAIN games, e \in DOMAIN escrows, s \in Addr, d \in SideIn,
     p \in PaymentIn, r \in RandomIn :
    contains(games[g].players, s) => join_abort(g, e, s, d, p, r) = E_ALREADY_JOINED

\* C12 amended: join_room by a player of the room never commits: for every
\* side and payment it aborts with E_ALREADY_JOINED while the room is
\* waiting and with E_GAME_STARTED once it has started.
C12_MemberCannotJoin ==
  \A g \in DOMAIN games, e \in DOMAIN escrows, s \in Addr, d \in SideIn,
     p \in PaymentIn, r \in RandomIn :
    contains(games[g].players, s) =>
      join_abort(g, e, s, d, p, r) =
        IF games[g].game_started THEN E_GAME_STARTED ELSE E_ALREADY_JOINED

\* a join with an invalid side and a payment below the stake was just
\* refused with E_ALREADY_JOINED in a waiting room
C12_Witness ==
  /\ last.op = "join_room" /\ last.code = E_ALREADY_JOINED
  /\ last.args = <<SIDE_TAILS + 1, MIN_STAKE_AMOUNT - 1>>
  /\ \E g \in DOMAIN games : ~games[g].game_started

\* C13: in a waiting room, join_room by a non-player with a payment other
\* than stake_per_player aborts with E_WRONG_AMOUNT, whatever the side and
\* the escrow (an abort changes no object, so players, sides, total stake and
\* escrow balance stay as they were).
C13_WrongStakeRefused ==
  \A g \in DOMAIN games, e \in DOMAIN escrows, s \in Addr, d \in SideIn,
     p \in PaymentIn, r \in RandomIn :
    (/\ ~games[g].game_started
     /\ ~contains(games[g].players, s)
     /\ p # games[g].stake_per_player)
      => join_abort(g, e, s, d, p, r) = E_WRONG_AMOUNT

\* a join with a valid side and one unit more than the stake was just
\* refused with E_WRONG_AMOUNT in a waiting room
C13_Witness ==
  /\ last.op = "join_room" /\ last.code = E_WRONG_AMOUNT
  /\ last.args[1] \in {SIDE_HEADS, SIDE_TAILS}
  /\ \E g \in DOMAIN games :
       /\ ~games[g].game_started
       /\ last.args[2] = games[g].stake_per_player + 1

\* C14: in every live room players and player_sides have the same length,
\* at most max_players, every side is SIDE_HEADS or SIDE_TAILS, and
\* max_players, creator and stake_per_player keep the values of creation.
C14_ShapeState ==
  \A g \in DOMAIN games :
    /\ Len(games[g].players) = Len(games[g].player_sides)
    /\ Len(games[g].players) <= games[g].max_players
    /\ \A i \in 1..Len(games[g].player_sides) :
         games[g].player_sides[i] \in {SIDE_HEADS, SIDE_TAILS}
C14_ShapeStep ==
  \A g \in DOMAIN games \cap DOMAIN games' :
    /\ games'[g].max_players = games[g].max_players
    /\ games'[g].creator = games[g].creator
    /\ games'[g].stake_per_player = games[g].stake_per_player
C14_RoomShape == []C14_ShapeState /\ [][C14_ShapeStep]_vars

\* a room of three is full, with both sides taken
C14_Witness ==
  \E g \in DOMAIN games :
    /\ Len(games[g].players) = MIN_PLAYERS + 1
    /\ games[g].max_players = MIN_PLAYERS + 1
    /\ contains(games[g].player_sides, SIDE_HEADS)
    /\ contains(games[g].player_sides, SIDE_TAILS)

\* C15: a live room is started exactly when it holds max_players players.
C15_StartedIffFull ==
  \A g \in DOMAIN games :
    games[g].game_started <=> Len(games[g].players) = games[g].max_players

\* the third player has just joined a room of three, which has started
C15_Witness ==
  /\ last.op = "join_room" /\ last.code = OK
  /\ last.game \in DOMAIN games
  /\ games[last.game].game_started
  /\ Len(games[last.game].players) = MIN_PLAYERS + 1

\* C16: unlock_ms is 0 while a room is waiting; the join_room that starts it
\* sets unlock_ms to the clock reading of that call plus LOCK_DURATION_MS;
\* afterwards no step changes it.
C16_UnlockState ==
  \A g \in DOMAIN games : ~games[g].game_started => games[g].unlock_ms = 0
C16_UnlockStep ==
  \A g \in DOMAIN games \cap DOMAIN games' :
    /\ (~games[g].game_started /\ games'[g].game_started) =>
         /\ last'.op = "join_room" /\ last'.game = g
         /\ games'[g].unlock_ms = now + LOCK_DURATION_MS
    /\ games[g].game_started =>
         /\ games'[g].game_started
         /\ games'[g].unlock_ms = games[g].unlock_ms
C16_UnlockFixedAtFill == []C16_UnlockState /\ [][C16_UnlockStep]_vars

\* a room that filled one tick after creation has had its blob id recorded
\* since, and still unlocks one lock duration after the fill
C16_Witness ==
  \E g \in DOMAIN games :
    /\ games[g].game_started /\ is_some(games[g].blob_id)
    /\ games[g].unlock_ms = BASE_TIME + 2 * LOCK_DURATION_MS

\* C17: for every live room total_stake = stake_per_player x |players|, and
\* the escrow bound to the room exists and holds exactly total_stake.
C17_EscrowHoldsStakes ==
  \A g \in DOMAIN games :
    /\ games[g].total_stake = games[g].stake_per_player * Len(games[g].players)
    /\ \E e \in DOMAIN escrows :
         escrows[e].game_id = g /\ escrows[e].funds = games[g].total_stake

\* the abort code of a cancel call, in the design that is deployed
cancel_abort(g, e, sender) ==
  IF variant = "backend" THEN cancel_room_abort(g, e, sender)
  ELSE cancel_room_r_abort(g, e, sender)

\* C18: a room whose winner, coin result, winners or blob id is set has
\* started; on a waiting room set_winner / set_blob_id aborts with
\* E_GAME_NOT_STARTED whatever its arguments.
C18_OutcomeOnlyWhenStarted ==
  \A g \in DOMAIN games :
    /\ (outcome_set(games[g]) \/ is_some(games[g].blob_id) \/ winner_set(games[g]) # {})
         => games[g].game_started
    /\ ~games[g].game_started =>
         IF variant = "backend"
         THEN \A w \in Addr, b \in BlobIn : set_winner_abort(g, w, b) = E_GAME_NOT_STARTED
         ELSE \A b \in BlobIn : set_blob_id_abort(g, b) = E_GAME_NOT_STARTED

\* the recording call was just refused on a waiting room
C18_Witness ==
  /\ last.op \in {"set_winner", "set_blob_id"} /\ last.code = E_GAME_NOT_STARTED
  /\ \E g \in DOMAIN games : ~games[g].game_started /\ ~outcome_set(games[g])

\* C19: on a started room cancel_room by the creator aborts with
\* E_GAME_STARTED, whatever escrow is passed (an abort refunds nothing and
\* deletes nothing).
C19_NoCancelAfterStart ==
  \A g \in DOMAIN games, e \in DOMAIN escrows :
    games[g].game_started => cancel_abort(g, e, games[g].creator) = E_GAME_STARTED

\* the creator's cancel_room was just refused on a started room, which is
\* still there with its escrow
C19_Witness ==
  /\ variant = "backend"
  /\ last.op = "cancel_room" /\ last.code = E_GAME_STARTED
  /\ \E g \in DOMAIN games :
       games[g].game_started /\ \E e \in DOMAIN escrows : escrows[e].game_id = g

C20_CancelState ==
  \A g \in DOMAIN games, e \in DOMAIN escrows :
    (~games[g].game_started /\ escrows[e].game_id = g)
      => cancel_abort(g, e, games[g].creator) =
           IF variant = "random" /\ Len(games[g].players) # 1
           THEN E_GAME_STARTED ELSE OK
C20_CancelStep ==
  (committed /\ last'.op = "cancel_room"
   /\ escrows[last'.escrow].game_id = last'.game) =>
    LET g == last'.game
        e == last'.escrow
    IN /\ last'.paid = [i \in 1..Len(games[g].players) |->
                          Transfer(games[g].players[i], games[g].stake_per_player)]
       /\ g \notin DOMAIN games'
       /\ e \notin DOMAIN escrows'
C21_OnlyCreatorCancels ==
  \A g \in DOMAIN games, e \in DOMAIN escrows, s \in Addr :
    s # games[g].creator => cancel_abort(g, e, s) = E_NOT_CREATOR

\* cancel_room was just refused with E_NOT_CREATOR on a started room, which
\* is still there with its escrow
C21_Witness ==
  /\ last.op = "cancel_room" /\ last.code = E_NOT_CREATOR
  /\ \E g \in DOMAIN games :
       games[g].game_started /\ \E e \in DOMAIN escrows : escrows[e].game_id = g

\* C22: backend design: while the winner of a started room is not recorded,
\* claim_reward aborts with E_WINNER_NOT_SET for every caller, every escrow
\* and every clock reading.
C22_NoClaimWithoutWinner ==
  variant = "backend" =>
    \A g \in DOMAIN games, e \in DOMAIN escrows, c \in Addr :
      (games[g].game_started /\ is_none(games[g].winner))
        => claim_reward_abort(g, e, c) = E_WINNER_NOT_SET

\* claim_reward was just refused with E_WINNER_NOT_SET although the lock of
\* the started room has run out
C22_Witness ==
  /\ variant = "backend"
  /\ last.op = "claim_reward" /\ last.code = E_WINNER_NOT_SET
  /\ \E g \in DOMAIN games :
       games[g].game_started /\ is_none(games[g].winner) /\ now >= games[g].unlock_ms

\* C23: randomness design: when winners is set, coin_result is set, winners
\* is not empty, and an address is a winner exactly when it is a player
\* whose side is the coin result.
C23_WinnersMatchCoin ==
  variant = "random" =>
    \A g \in DOMAIN games :
      is_some(games[g].winners) =>
        /\ is_some(games[g].coin_result)
        /\ Len(borrow(games[g].winners)) > 0
        /\ \A a \in Addr :
             contains(borrow(games[g].winners), a) <=>
               \E i \in 1..Len(games[g].players) :
                 /\ games[g].players[i] = a
                 /\ games[g].player_sides[i] = borrow(games[g].coin_result)

\* a room of three has started with two winners and one loser
C23_Witness ==
  /\ variant = "random"
  /\ \E g \in DOMAIN games :
       /\ games[g].game_started /\ Len(games[g].players) = MIN_PLAYERS + 1
       /\ Len(borrow(games[g].winners)) = MIN_PLAYERS

\* the join call that would fill room g
fills(g, e, s, d, p) ==
  /\ ~games[g].game_started
  /\ Len(games[g].players) + 1 = games[g].max_players
  /\ ~contains(games[g].players, s)
  /\ d \in {SIDE_HEADS, SIDE_TAILS}
  /\ p = games[g].stake_per_player
  /\ escrows[e].game_id = g

C25_EachWinnerSettles ==
  [][(variant = "random" /\ committed /\ last'.op = "claim_reward") =>
       LET g == last'.game
           e == last'.escrow
       IN Len(borrow(games[g].winners)) > 1 =>
            /\ last'.paid = <<Transfer(last'.sender, reward_per_winner(games[g]))>>
            /\ g \in DOMAIN games'
            /\ e \in DOMAIN escrows'
            /\ escrows'[e].funds = escrows[e].funds - reward_per_winner(games[g])]_vars

C27_SealState ==
  /\ \A t \in SealTimeIn : peel_u64(bcs_to_bytes(t)) = t
  /\ \A t \in SealTimeIn, p \in {<<>>, PackagePrefix} :
       LET id == p \o bcs_to_bytes(t) IN
       IF variant = "random"
       THEN seal_approve_r_abort(id) = IF now >= t THEN OK ELSE E_TOO_EARLY
       ELSE \A g \in DOMAIN games :
              seal_approve_abort(id, g) =
                IF t # games[g].unlock_ms THEN E_INVALID_SEAL_ID
                ELSE IF now >= t THEN OK ELSE E_TOO_EARLY
  /\ \A t \in SealTimeIn :
       LET id == Tail(bcs_to_bytes(t)) IN
       IF variant = "random" THEN seal_approve_r_abort(id) = E_INVALID_SEAL_ID
       ELSE \A g \in DOMAIN games : seal_approve_abort(id, g) = E_INVALID_SEAL_ID
C27_SealStep ==
  last'.op = "seal_approve" =>
    /\ games' = games /\ escrows' = escrows /\ events' = events
    /\ last'.paid = <<>>
C27_SealIsAPureGate == []C27_SealState /\ [][C27_SealStep]_vars

\* the key server was just refused with E_TOO_EARLY for the identity that
\* ends in the unlock timestamp of a started room
C27_Witness ==
  /\ last.op = "seal_approve" /\ last.code = E_TOO_EARLY
  /\ \E g \in DOMAIN games :
       /\ games[g].game_started /\ now < games[g].unlock_ms
       /\ last.args = <<PackagePrefix \o bcs_to_bytes(games[g].unlock_ms)>>

\* C28: within the relay process at most one processFullGame is past its
\* first await at any time, whether pollEvents or manualProcessGame called it.
C28_OneSubmissionInFlight == ~(in_flight("poll") /\ in_flight("manual"))

\* the room's result is on chain: winner and blob id (backend design), blob
\* id (randomness design)
recorded(g) ==
  /\ g \in DOMAIN games
  /\ IF variant = "backend" THEN is_some(games[g].winner) ELSE is_some(games[g].blob_id)

\* C29: while the polling loop keeps running with a wallet and external
\* calls stop failing, every room whose GameFull event the node serves eventually has
\* its result recorded on chain, a failed attempt being repeated in a later
\* cycle.
C29_StartedIsRecorded ==
  ([](relay.running /\ relay.keypair)) =>
     \A g \in 1..MaxGames : (contains(relay.feed, g) ~> recorded(g))

\* C30: pollEvents calls processFullGame for a room only when the room is
\* not in processedGames and the object it read in that cycle holds no
\* result; a room whose submission committed, or whose result was read as
\* already set, is in processedGames after the step; the set only grows
\* while the loop lives, so the loop does not submit for such a room again.
C30_PollStep ==
  /\ (relay.poll.stage = "none" /\ relay'.poll.stage = "encrypt") =>
       /\ relay'.poll.game = Head(relay.batch)
       /\ relay'.poll.game \notin relay.processedGames
       /\ relay'.poll.game \in DOMAIN games /\ ~recorded(relay'.poll.game)
  /\ in_flight("poll") => relay.poll.game \notin relay.processedGames
  /\ (relay.poll.stage = "submit" /\ relay'.poll.stage = "none" /\ games' # games) =>
       /\ is_none(games[relay.poll.game].blob_id)
       /\ is_some(games'[relay.poll.game].blob_id)
       /\ relay.poll.game \in relay'.processedGames
  /\ (/\ relay.pc = "events" /\ relay.poll.stage = "none" /\ relay.batch # <<>>
      /\ relay'.pc = "events" /\ relay'.batch = Tail(relay.batch)
      /\ recorded(Head(relay.batch))) =>
       Head(relay.batch) \in relay'.processedGames
  /\ relay.processedGames \subseteq relay'.processedGames \/ relay.pc = "done"
C30_PollSubmitsOnce == [][C30_PollStep]_vars

\* the loop has ended a cycle in which it put a room with a recorded result
\* into processedGames without a submission of its own: the receipt of the
\* recording transaction predates the loop's read
C30_Witness ==
  /\ relay.pc = "wait" /\ relay.lastCursor > 0
  /\ \E g \in relay.processedGames : recorded(g)
  /\ \E g \in DOMAIN games : recorded(g) /\ g \notin relay.processedGames

\* C31: once cleanup has set running to false the loop starts no poll
\* cycle; the call of cleanup leaves the cycle in progress as it is, the
\* cycle ends only at the end of its for loop or in its catch, never while
\* processFullGame is awaited, and the loop then ends.
C31_Step ==
  /\ (relay.pc = "wait" /\ relay'.pc = "events") => relay.running
  /\ (relay.running /\ ~relay'.running) =>
       /\ relay'.pc = relay.pc /\ relay'.batch = relay.batch
       /\ relay'.poll = relay.poll /\ relay'.lastCursor = relay.lastCursor
  /\ (relay.pc = "events" /\ relay'.pc # "events") =>
       relay'.pc = "wait" /\ relay.poll.stage = "none"
  /\ (relay.pc # "done" /\ relay'.pc = "done") =>
       relay.pc = "wait" /\ ~relay.running
C31_CooperativeStop ==
  [][C31_Step]_vars /\ ((~relay.running) ~> (relay.pc = "done"))

\* cleanup was called while processFullGame is awaited inside a cycle
C31_Witness ==
  /\ ~relay.running /\ relay.pc = "events" /\ in_flight("poll")
  /\ relay.batch # <<>>

\* C32: a room goes Waiting -> Started -> Settled or Waiting -> Cancelled:
\* game_started never returns to false, only claim_reward and cancel_room
\* destroy a room, cancel_room only a Waiting one and claim_reward only a
\* Started one, and once the room object is destroyed it never comes back
\* and no transaction on it commits.
C32_Step ==
  \A g \in 1..MaxGames :
    /\ (g \in DOMAIN games /\ g \in DOMAIN games' /\ games[g].game_started) =>
         games'[g].game_started
    /\ (g \in DOMAIN games /\ g \notin DOMAIN games') =>
         /\ last'.code = OK /\ last'.game = g
         /\ last'.op \in {"cancel_room", "claim_reward"}
         /\ last'.op = "cancel_room" => ~games[g].game_started
         /\ last'.op = "claim_reward" => games[g].game_started
    /\ (g \notin DOMAIN games /\ g < nextId) =>
         /\ g \notin DOMAIN games'
         /\ ~(/\ last'.game = g /\ last'.code = OK
              /\ <<last, games, escrows, events>>' # <<last, games, escrows, events>>)
C32_Lifecycle == [][C32_Step]_vars

\* a Started room has just been settled and its object is gone
C32_Witness ==
  /\ last.op = "claim_reward" /\ last.code = OK
  /\ last.game < nextId /\ last.game \notin DOMAIN games
  /\ count(events[last.game], "GameFull") = 1

\* C33: a room object exists exactly when the escrow bound to it exists:
\* every live room has an escrow whose game_id is the room, and every live
\* escrow is bound to a live room.
C33_RoomAndEscrowPaired ==
  /\ \A g \in DOMAIN games : \E e \in DOMAIN escrows : escrows[e].game_id = g
  /\ \A e \in DOMAIN escrows : escrows[e].game_id \in DOMAIN games

\* a join call by a non-member with the room's stake, a side of the coin
\* and the room's own escrow
valid_join(g, e, s, d, p) ==
  /\ ~contains(games[g].players, s)
  /\ d \in {SIDE_HEADS, SIDE_TAILS}
  /\ p = games[g].stake_per_player
  /\ escrows[e].game_id = g

C35_Step ==
  /\ \A who \in Caller :
       /\ (relay'[who].stage = "encrypt" /\ relay[who].stage # "encrypt") =>
            /\ relay[who].stage \in {"none", "read"}
            /\ relay'[who].blob = <<>>
            /\ relay'[who].game \in DOMAIN games
            /\ relay'[who].unlockMs = games[relay'[who].game].unlock_ms
            /\ games[relay'[who].game].game_started
       /\ (relay'[who].stage = "upload" /\ relay[who].stage # "upload") =>
            relay[who].stage = "encrypt" /\ relay'[who].blob = <<>>
       /\ (relay'[who].stage = "submit" /\ relay[who].stage # "submit") =>
            relay[who].stage = "upload" /\ relay'[who].blob \in WalrusBlobIn
       /\ (relay'[who].stage = relay[who].stage) => relay'[who] = relay[who]
  /\ (committed /\ last'.op \in {"set_winner", "set_blob_id"}) =>
       \E who \in Caller :
         LET f == relay[who] IN
         /\ relay.keypair /\ f.stage = "submit" /\ relay'[who] = NoFlight
         /\ f.blob \in WalrusBlobIn
         /\ last'.game = f.game /\ last'.sender = BackendWallet
         /\ last'.args[Len(last'.args)] = f.blob
         /\ games'[f.game].blob_id = some(f.blob)
         /\ f.unlockMs = games[f.game].unlock_ms
  /\ relay'.failures # relay.failures => UNCHANGED chain
  /\ ~relay.keypair => \A who \in Caller : relay'[who] = NoFlight
C35_SubmitAfterUpload == [][C35_Step]_vars

\* a submission of the polling loop has just committed with the blob id of
\* its upload
C35_Witness ==
  /\ last.op \in {"set_winner", "set_blob_id"} /\ last.code = OK
  /\ last.game \in relay.processedGames
  /\ relay.poll = NoFlight /\ relay.pc = "events"
  /\ games[last.game].blob_id = some(<<2>>)

\* C36: with a wallet, a room that App has put in processingRef and whose
\* result is not recorded is being processed by manualProcessGame right
\* now; once that call has ended without a result the room is out of
\* processingRef again, so that a later pass of processFullGames takes it.
C36_FailedIsRetried ==
  relay.keypair =>
    \A g \in relay.processingRef :
      (g \in DOMAIN games /\ ~recorded(g)) =>
        relay.manual.game = g /\ relay.manual.stage # "none"

\* what anyone reads of a room with getObject: every field of the shared
\* object
public_view(game) == game

\* C37: before unlock_ms the public state of a started room is the same
\* whichever outcome was determined: the room after a set_winner that
\* commits before unlock looks the same as after a set_winner for any other
\* player (backend design), and the room after the filling join looks the
\* same as after the filling join with any other draw that has a winner
\* (randomness design).
C37_Step ==
  committed =>
    LET g == last'.game IN
    /\ (last'.op = "set_winner" /\ now < games[g].unlock_ms) =>
         \A i \in 1..Len(games[g].players) :
           public_view([games[g] EXCEPT !.winner = some(games[g].players[i]),
                                        !.blob_id = some(last'.args[2])])
             = public_view(games'[g])
    /\ (/\ variant = "random" /\ last'.op = "join_room"
        /\ ~games[g].game_started /\ games'[g].game_started) =>
         \A r \in RandomIn :
           LET game == joined(games[g], last'.sender, last'.args[1])
               coin_result == coin_of(r)
               winners == find_winners(game.players, game.player_sides, coin_result)
           IN Len(winners) > 0 =>
                public_view([game EXCEPT !.game_started = TRUE,
                                         !.unlock_ms = now + LOCK_DURATION_MS,
                                         !.coin_result = some(coin_result),
                                         !.winners = some(winners)])
                  = public_view(games'[g])
C37_OutcomeHiddenUntilUnlock == [][C37_Step]_vars

\* C38: can_claim is true exactly when a claim_reward call at this clock
\* reading, by the recorded winner (backend design) or by the given player
\* (randomness design), would commit.
C38_CanClaimMeansClaimable ==
  \A g \in DOMAIN games :
    IF variant = "backend"
    THEN can_claim(g) <=>
           /\ is_some(games[g].winner)
           /\ \E e \in DOMAIN escrows :
                claim_reward_abort(g, e, borrow(games[g].winner)) = OK
    ELSE \A player \in Addr :
           can_claim_r(g, player) <=>
             \E e \in DOMAIN escrows : claim_reward_r_abort(g, e, player) = OK

\* C39: no join_room call aborts with E_GAME_FULL: a room is full exactly
\* when it has started, and the assert on game_started comes first, so a
\* join on a full room aborts with E_GAME_STARTED.
C39_NeverGameFull ==
  /\ last.op = "join_room" => last.code # E_GAME_FULL
  /\ \A g \in DOMAIN games :
       /\ games[g].game_started <=> ~(Len(games[g].players) < games[g].max_players)
       /\ \A e \in DOMAIN escrows, s \in Addr, d \in SideIn, p \in PaymentIn,
             r \in RandomIn :
            /\ join_abort(g, e, s, d, p, r) # E_GAME_FULL
            /\ ~(Len(games[g].players) < games[g].max_players) =>
                 join_abort(g, e, s, d, p, r) = E_GAME_STARTED

\* a join on a full room of two was just refused with E_GAME_STARTED
C39_Witness ==
  /\ last.op = "join_room" /\ last.code = E_GAME_STARTED
  /\ \E g \in DOMAIN games :
       Len(games[g].players) = MIN_PLAYERS /\ games[g].max_players = MIN_PLAYERS

\* C40: claimed is false in every live room, so is_claimed is never true
\* and no claim_reward aborts with E_ALREADY_CLAIMED; a committed claim
\* leaves neither the room nor the escrow it was called with, which is
\* what excludes a second claim.
C40_ClaimedNeverSet ==
  /\ \A g \in DOMAIN games :
       /\ ~is_claimed(g)
       /\ \A e \in DOMAIN escrows, s \in Addr :
            claim_abort(g, e, s) # E_ALREADY_CLAIMED
  /\ last.op = "claim_reward" =>
       /\ last.code # E_ALREADY_CLAIMED
       /\ last.code = OK =>
            last.game \notin DOMAIN games /\ last.escrow \notin DOMAIN escrows

\* a winner of the randomness design has just claimed: room and escrow are
\* gone
C40_Witness ==
  /\ variant = "random"
  /\ last.op = "claim_reward" /\ last.code = OK /\ last.paid # <<>>
  /\ last.game \notin DOMAIN games /\ last.escrow \notin DOMAIN escrows
====
